---- MODULE Spec2Model ----
(***************************************************************************)
(* The staged deployment pipeline of the Home Assistant skill              *)
(* (scripts/deploy-config.py): validate -> stage -> copy secrets ->        *)
(* backup -> promote -> remote check -> reload -> report.                  *)
(*                                                                         *)
(* Strings are atomic in TLC, so a file name carries its suffix as a field *)
(* and the glob / rsync patterns are matched through small tables.         *)
(* Python's None is the string "None"; a dict is a function whose domain   *)
(* is the set of keys present.                                             *)
(***************************************************************************)
EXTENDS Integers, Sequences, FiniteSets, TLC

VARIABLES
    pc,              \* position of main()
    env_ok,          \* HOMEASSISTANT_URL / _TOKEN / HA_SSH_HOST all set
    path_exists,     \* config_path.exists()
    tree,            \* the local configuration tree: file -> absent/valid/invalid
    no_backup,       \* --no-backup
    dry_run,         \* --dry-run
    output_json,     \* --json
    skip_push,       \* validate-config.py: --skip-push
    force,           \* init-config.py: --force
    skip_pull,       \* init-config.py: --skip-pull
    steps,           \* the report dict built by main()
    proc,            \* outcome of the latest subprocess.run, until the next step
    client_open,     \* the HomeAssistantClient context is entered
    posts,           \* create_backup: the answers its POST requests got, in order
    wait_timeout,    \* wait_for_backup: its timeout parameter
    backups_before,  \* wait_for_backup: slugs listed before the trigger, until the next step
    backups_after,   \* wait_for_backup: the listing of the latest poll, until the next step
    elapsed,         \* wait_for_backup: time.time() - start_time
    calls,           \* every remote call made so far, in order; init-config.py:
                     \* also the removal and the creation of the local directory
    staging,         \* files of HA_STAGING_PATH on the controller
    production,      \* files of HA_CONFIG_PATH on the controller
    emitted,         \* what click.echo wrote
    exit_code        \* process exit status, NoExit while running

vars == <<pc, env_ok, path_exists, tree, no_backup, dry_run, output_json, skip_push,
          force, skip_pull,
          steps, proc, client_open, posts, wait_timeout, backups_before, backups_after, elapsed,
          calls, staging, production, emitted, exit_code>>

----------------------------------------------------------------------------
(* Bounds of the model *)

\* backup slugs the controller can hold are 1..MaxSlug
MaxSlug == 2

\* the local tree holds at most MaxFiles files
MaxFiles == 2

\* the budget of the backup wait, in seconds: main() passes timeout=300 (60
\* polls); the model runs wait_for_backup with a budget of a few intervals
timeout == 15

(* Program constants *)

\* time.sleep(5) in the poll loop
PollInterval == 5

NoExit == -1
None == "None"

----------------------------------------------------------------------------
(* Dicts *)

EmptyDict == [k \in {} |-> None]

Put(d, k, v) == [x \in (DOMAIN d) \cup {k} |-> IF x = k THEN v ELSE d[x]]

Has(d, k) == k \in DOMAIN d

\* dict.get(k, default)
Get(d, k, default) == IF k \in DOMAIN d THEN d[k] ELSE default

----------------------------------------------------------------------------
(* The local tree *)

File(dirs, name, suffix) == [dirs |-> dirs, name |-> name, suffix |-> suffix]

LocalFiles ==
    { File(<<>>, "configuration.yaml", ".yaml"),
      File(<<>>, "secrets.yaml", ".yaml"),
      File(<<>>, "ui-lovelace.yml", ".yml"),
      File(<<"packages">>, "lights.yaml", ".yaml") }

FileStatus == {"absent", "valid", "invalid"}

Trees == [LocalFiles -> FileStatus]

\* a document may also be one that open() cannot read
ReadStatus == FileStatus \cup {"unreadable"}

AllTrees == [LocalFiles -> ReadStatus]

\* the names of LocalFiles in Python's sort order of their paths
SortedPaths ==
    << File(<<>>, "configuration.yaml", ".yaml"),
       File(<<"packages">>, "lights.yaml", ".yaml"),
       File(<<>>, "secrets.yaml", ".yaml"),
       File(<<>>, "ui-lovelace.yml", ".yml") >>

\* Path.glob("*" + suffix): the entries of the directory itself only
Glob(t, suffix) ==
    {f \in LocalFiles : t[f] # "absent" /\ f.dirs = <<>> /\ f.suffix = suffix}

Sorted(S) == SelectSeq(SortedPaths, LAMBDA f : f \in S)

validate_yaml_file(t, f) ==
    IF t[f] = "valid"
    THEN [file |-> f.name, valid |-> TRUE, error |-> None]
    ELSE [file |-> f.name, valid |-> FALSE,
          error |-> IF t[f] = "invalid" THEN "YAMLError" ELSE "PermissionError"]

RECURSIVE ValidateEach(_, _)
ValidateEach(t, files) ==
    IF files = <<>> THEN <<>>
    ELSE IF Head(files).name = "secrets.yaml"
         THEN ValidateEach(t, Tail(files))
         ELSE <<validate_yaml_file(t, Head(files))>> \o ValidateEach(t, Tail(files))

\* a validator that collects the results and reports them all as fine
validate_local_config_lenient(t) ==
    LET yaml_files == Glob(t, ".yaml") \cup Glob(t, ".yml")
    IN  [valid |-> TRUE, results |-> ValidateEach(t, Sorted(yaml_files))]

\* a validator that gives up at the first document with an error
validate_local_config_stops_at_error(t) ==
    LET yaml_files == Glob(t, ".yaml") \cup Glob(t, ".yml")
        results == ValidateEach(t, Sorted(yaml_files))
        bad == {i \in 1..Len(results) : ~results[i].valid}
        first == CHOOSE i \in bad : \A j \in bad : i <= j
    IN  IF bad = {} THEN [valid |-> TRUE, results |-> results]
        ELSE [valid |-> FALSE, results |-> SubSeq(results, 1, first)]

\* a validator that wants at least one document to have been checked
validate_local_config_needs_documents(t) ==
    LET yaml_files == Glob(t, ".yaml") \cup Glob(t, ".yml")
        results == ValidateEach(t, Sorted(yaml_files))
        errs == SelectSeq(results, LAMBDA r : ~r.valid)
    IN  [valid |-> Len(errs) = 0 /\ Len(results) > 0, results |-> results]

validate_local_config(t) ==
    LET yaml_files == Glob(t, ".yaml") \cup Glob(t, ".yml")
        results == ValidateEach(t, Sorted(yaml_files))
        errs == SelectSeq(results, LAMBDA r : ~r.valid)
    IN  [valid |-> Len(errs) = 0, results |-> results]

----------------------------------------------------------------------------
(* rsync patterns *)

\* CRITICAL: files/directories to never overwrite
RSYNC_EXCLUDES ==
    << ".storage/", "backups/", "secrets.yaml", "*.db", "*.db-shm", "*.db-wal",
       "home-assistant.log*", "*.log", "tts/", "deps/", "__pycache__/",
       ".cloud/", ".ha_run.lock", ".HA_VERSION" >>

\* a staging push whose --exclude list lacks the secrets file
STAGING_EXCLUDES_without_secrets ==
    << ".git/", ".gitignore", ".storage/", "backups/", "*.db",
       "*.log*", "tts/", "deps/", "__pycache__/" >>

\* the --exclude list of the staging push
STAGING_EXCLUDES ==
    << ".git/", ".gitignore", "secrets.yaml", ".storage/", "backups/", "*.db",
       "*.log*", "tts/", "deps/", "__pycache__/" >>

Range(s) == {s[i] : i \in 1..Len(s)}

\* patterns holding a character outside shlex's safe set [A-Za-z0-9_@%+=:,./-]
UnsafeWords == {"*.db", "*.db-shm", "*.db-wal", "home-assistant.log*", "*.log", "*.log*"}

\* shlex.quote: a safe word is left alone, any other is single-quoted
shlex_quote(w) == [quoted |-> w \in UnsafeWords, text |-> w]

\* the remote shell reading one word of the command line: a quoted word is
\* taken literally, a bare word with a glob character is expanded against the
\* working directory and is no longer the pattern that was written
ShellWord(q) ==
    IF q.quoted \/ q.text \notin UnsafeWords THEN q.text ELSE "<expanded>"

\* a directory pattern "name/" matches that directory at any depth; a name
\* pattern matches the file name at any depth
DirPatterns ==
    [p \in {".storage/", "backups/", "tts/", "deps/", "__pycache__/", ".cloud/", ".git/"}
        |-> CASE p = ".storage/" -> ".storage" [] p = "backups/" -> "backups"
              [] p = "tts/" -> "tts" [] p = "deps/" -> "deps"
              [] p = "__pycache__/" -> "__pycache__" [] p = ".cloud/" -> ".cloud"
              [] p = ".git/" -> ".git"]

SuffixPatterns ==
    [p \in {"*.db", "*.db-shm", "*.db-wal", "*.log"}
        |-> CASE p = "*.db" -> ".db" [] p = "*.db-shm" -> ".db-shm"
              [] p = "*.db-wal" -> ".db-wal" [] p = "*.log" -> ".log"]

Matches(p, f) ==
    IF p \in DOMAIN DirPatterns THEN DirPatterns[p] \in Range(f.dirs)
    ELSE IF p \in DOMAIN SuffixPatterns THEN f.suffix = SuffixPatterns[p]
    ELSE IF p = "*.log*" THEN f.suffix = ".log"
    ELSE IF p = "home-assistant.log*" THEN f.name = "home-assistant.log"
    ELSE f.name = p

Excluded(patterns, f) == \E p \in patterns : Matches(p, f)

\* rsync -av --delete src/ dst/: every file of src that is not excluded
\* replaces its namesake, every file of dst that is neither in src nor
\* excluded is deleted, excluded files of dst are left alone
Rsync(src, dst, patterns) ==
    {e \in dst : Excluded(patterns, e.file)}
        \cup {e \in src : ~Excluded(patterns, e.file)}

\* the files of the local tree, with their content
LocalEntries(t) ==
    {[file |-> f, content |-> t[f]] : f \in {g \in LocalFiles : t[g] # "absent"}}

----------------------------------------------------------------------------
(* Remote calls *)

Call(op, dry, excludes) == [op |-> op, dry_run |-> dry, excludes |-> excludes]

Ops(log) == {log[i].op : i \in 1..Len(log)}

CountOp(log, op) == Cardinality({i \in 1..Len(log) : log[i].op = op})

\* subprocess.run either returns (returncode, stdout, stderr) or raises exc
Proc(rc, out, err) == [raised |-> FALSE, exc |-> None, returncode |-> rc, stdout |-> out, stderr |-> err]

Raised(exc) == [raised |-> TRUE, exc |-> exc, returncode |-> NoExit, stdout |-> "", stderr |-> ""]

NoProc == Proc(NoExit, "", "")

\* outcomes of subprocess.run for an rsync: exit 0, a non-zero exit with or
\* without text on stderr, TimeoutExpired, or the transport failing to start
RsyncOutcomes ==
    { Proc(0, "sending incremental file list", ""),
      Proc(1, "", ""),
      Proc(23, "", "rsync error: some files could not be transferred"),
      Proc(255, "", "ssh: connect to host refused"),
      Raised("timed out after 120 seconds"),
      Raised("No such file or directory") }


----------------------------------------------------------------------------
(* Reporting *)

\* click.echo(json.dumps(steps)) or click.echo(format_deploy_result(steps))
Echo(s) == Append(emitted, [format |-> IF output_json THEN "json" ELSE "text", steps |-> s])

\* sys.exit(code)
Exit(code) == pc' = "done" /\ exit_code' = code

\* the abort blocks of main(): mark the report, print it, exit 1
Abort(s, reason) ==
    LET r == Put(Put(s, "overall_success", FALSE), "abort_reason", reason)
    IN  /\ steps' = r
        /\ emitted' = Echo(r)
        /\ Exit(1)

\* the generic handler of main(): except Exception as error
Fail(s, message) ==
    LET r == Put(Put(s, "error", message), "overall_success", FALSE)
    IN  /\ steps' = r
        /\ emitted' = IF output_json THEN Echo(r)
                      ELSE Append(emitted, [format |-> "stderr", steps |-> r])
        /\ Exit(1)

----------------------------------------------------------------------------
(* The controller's file trees *)

SecretsFile == File(<<>>, "secrets.yaml", ".yaml")

InitialStaging == {[file |-> File(<<>>, "stale.yaml", ".yaml"), content |-> "valid"]}

InitialProduction ==
    { [file |-> File(<<>>, "configuration.yaml", ".yaml"), content |-> "live"],
      [file |-> SecretsFile, content |-> "live"],
      [file |-> File(<<".storage">>, "core.device_registry", ""), content |-> "live"],
      [file |-> File(<<>>, "home-assistant_v2.db", ".db"), content |-> "live"] }

\* cp production/secrets.yaml staging/secrets.yaml
CopySecret(prod, stage) ==
    {e \in stage : e.file # SecretsFile} \cup {e \in prod : e.file = SecretsFile}

----------------------------------------------------------------------------
(* main() *)

Init ==
    /\ pc = "main"
    /\ env_ok \in BOOLEAN
    /\ path_exists \in BOOLEAN
    /\ tree \in Trees
    /\ Cardinality({f \in LocalFiles : tree[f] # "absent"}) <= MaxFiles
    /\ (~path_exists => \A f \in LocalFiles : tree[f] = "absent")
    /\ no_backup \in BOOLEAN
    /\ dry_run \in BOOLEAN
    /\ output_json \in BOOLEAN
    /\ skip_push = FALSE
    /\ force = FALSE
    /\ skip_pull = FALSE
    /\ steps = EmptyDict
    /\ proc = NoProc
    /\ client_open = FALSE
    /\ posts = <<>>
    /\ wait_timeout = timeout
    /\ backups_before = {}
    /\ backups_after = {}
    /\ elapsed = 0
    /\ calls = <<>>
    /\ staging = InitialStaging
    /\ production = InitialProduction
    /\ emitted = <<>>
    /\ exit_code = NoExit

\* _validate_config(), get_required_env("HA_SSH_HOST") and the existence
\* check of the local path, which raises click.UsageError (exit status 2)
Startup ==
    /\ pc = "main"
    /\ IF ~env_ok THEN Exit(1)
       ELSE IF ~path_exists THEN Exit(2)
       ELSE pc' = "validate" /\ UNCHANGED exit_code
    /\ UNCHANGED <<env_ok, skip_push, force, skip_pull, posts, wait_timeout, backups_after, path_exists, tree, no_backup, dry_run, output_json,
                   steps, proc, client_open, backups_before, elapsed, calls, staging, production, emitted>>

\* Step 1: validate YAML locally
Validate ==
    /\ pc = "validate"
    /\ LET v == validate_local_config(tree)
           s == Put(steps, "yaml_validation",
                    [success |-> v.valid, results |-> v.results,
                     error |-> IF v.valid THEN None ELSE "YAML syntax errors found"])
       IN  IF ~v.valid
           THEN Abort(s, "YAML validation failed")
           ELSE /\ steps' = s
                /\ pc' = "staging"
                /\ UNCHANGED <<emitted, exit_code>>
    /\ UNCHANGED <<env_ok, skip_push, force, skip_pull, posts, wait_timeout, backups_after, path_exists, tree, no_backup, dry_run, output_json,
                   proc, client_open, backups_before, elapsed, calls, staging, production>>

\* a push whose exception handler reports the step as done
StagingResult_swallowed(p) ==
    IF p.raised THEN [success |-> TRUE, error |-> p.exc]
    ELSE [success |-> p.returncode = 0,
          error |-> IF p.returncode # 0 THEN p.stderr ELSE None]

\* the result dict of rsync_to_staging
StagingResult(p) ==
    IF p.raised THEN [success |-> FALSE, error |-> p.exc]
    ELSE [success |-> p.returncode = 0,
          error |-> IF p.returncode # 0 THEN p.stderr ELSE None]

\* Step 2: push to staging. The push mirrors the local tree into the scratch
\* path; a failed or timed-out transfer may have stopped anywhere, before or
\* after the files were written
Stage ==
    /\ pc = "staging"
    /\ calls' = Append(calls, Call("rsync_to_staging", FALSE, Range(STAGING_EXCLUDES)))
    /\ \E o \in RsyncOutcomes :
         LET pushed == Rsync(LocalEntries(tree), staging, Range(STAGING_EXCLUDES))
             staging_result == StagingResult(o)
             s == Put(steps, "staging_push", staging_result)
         IN  /\ proc' = o
             /\ IF ~o.raised /\ o.returncode = 0
                THEN staging' = pushed
                ELSE staging' \in {staging, pushed}
             /\ IF ~staging_result.success
                THEN Abort(s, "Failed to push to staging")
                ELSE /\ steps' = s
                     /\ pc' = "copy_secrets"
                     /\ UNCHANGED <<emitted, exit_code>>
    /\ UNCHANGED <<env_ok, skip_push, force, skip_pull, posts, wait_timeout, backups_after, path_exists, tree, no_backup, dry_run, output_json,
                   client_open, backups_before, elapsed, production>>

\* outcomes of subprocess.run for the copy: the remote shell ends with status
\* 0 whether cp worked or not (|| true), ssh itself fails, or the 30 s run out
SecretsOutcomes ==
    { Proc(0, "", ""),
      Proc(255, "", "ssh: connect to host refused"),
      Raised("timed out after 30 seconds") }

\* the result dict of copy_secrets_to_staging
SecretsResult(p) ==
    IF p.raised THEN [success |-> FALSE, error |-> p.exc] ELSE [success |-> TRUE]

\* a coordinator that gives up when the copy did not get through
AfterSecrets_stop_on_failure(secrets_result) ==
    IF ~secrets_result.success THEN "done"
    ELSE IF dry_run THEN "dry_run" ELSE "backup"

\* a coordinator that promotes right after the copy
AfterSecrets_skip_backup(secrets_result) == IF dry_run THEN "dry_run" ELSE "deploy"

\* main(): the result of the copy is dropped; `if dry_run:` comes next
AfterSecrets(secrets_result) == IF dry_run THEN "dry_run" ELSE "backup"

\* copy_secrets_to_staging: "cp src dst 2>/dev/null || true" over ssh; the
\* copy happens or not (file absent, permission denied, transport error,
\* timeout) and main() ignores the result either way
CopySecrets ==
    /\ pc = "copy_secrets"
    /\ calls' = Append(calls, Call("copy_secrets_to_staging", FALSE, {}))
    /\ \E o \in SecretsOutcomes :
         /\ proc' = o
         /\ IF ~o.raised /\ o.returncode # 0
            THEN staging' = staging
            ELSE \/ staging' = CopySecret(production, staging)
                 \/ staging' = staging
         /\ pc' = AfterSecrets(SecretsResult(o))
    /\ UNCHANGED <<env_ok, skip_push, force, skip_pull, posts, wait_timeout, backups_after, path_exists, tree, no_backup, dry_run, output_json,
                   steps, client_open, backups_before, elapsed, production, emitted, exit_code>>

\* a promotion that forgets the --dry-run flag
DeployCommand_no_dry_flag(dry) ==
    [dry_run_flag |-> FALSE,
     exclude_parts |-> [i \in 1..Len(RSYNC_EXCLUDES) |-> shlex_quote(RSYNC_EXCLUDES[i])]]

\* a promotion that reuses the exclude list of the staging push
DeployCommand_staging_excludes(dry) ==
    [dry_run_flag |-> dry,
     exclude_parts |-> [i \in 1..Len(STAGING_EXCLUDES) |-> shlex_quote(STAGING_EXCLUDES[i])]]

\* the command line deploy_staging_to_production sends to the remote shell
DeployCommand(dry) ==
    [dry_run_flag |-> dry,
     exclude_parts |-> [i \in 1..Len(RSYNC_EXCLUDES) |-> shlex_quote(RSYNC_EXCLUDES[i])]]

\* the --exclude patterns rsync receives once the remote shell has split it
EffectiveExcludes(cmd) == {ShellWord(cmd.exclude_parts[i]) : i \in 1..Len(cmd.exclude_parts)}

\* a promotion that takes a sync it got no answer from as done
DeployResult_timeout_as_done(p, dry) ==
    IF p.raised THEN [success |-> TRUE, dry_run |-> dry, output |-> "", error |-> None]
    ELSE [success |-> p.returncode = 0, dry_run |-> dry, output |-> p.stdout,
          error |-> IF p.returncode # 0 THEN p.stderr ELSE None]

\* a promotion that replaces the text of stderr by a message of its own
DeployResult_summarised(p, dry) ==
    IF p.raised THEN [success |-> FALSE, error |-> p.exc]
    ELSE [success |-> p.returncode = 0, dry_run |-> dry, output |-> p.stdout,
          error |-> IF p.returncode # 0 THEN "rsync failed" ELSE None]

\* the result dict of deploy_staging_to_production
DeployResult(p, dry) ==
    IF p.raised THEN [success |-> FALSE, error |-> p.exc]
    ELSE [success |-> p.returncode = 0, dry_run |-> dry, output |-> p.stdout,
          error |-> IF p.returncode # 0 THEN p.stderr ELSE None]

\* with the default paths HA_STAGING_PATH ("/homeassistant/config_staging")
\* is a directory of HA_CONFIG_PATH ("/homeassistant")
StagingInsideProduction == TRUE

\* rsync --delete on the destination: config_staging/ is an entry of the
\* production path that the source does not hold and no pattern names, so
\* its files are extraneous and deleted, those matching an exclude pattern
\* excepted
DeleteExtraneous(stage, patterns) ==
    IF StagingInsideProduction
    THEN {e \in stage : Excluded(patterns, e.file)}
    ELSE stage

\* deploy_staging_to_production(ssh_host, dry): the call and what it does to
\* the production tree and to the staging directory inside it; rsync
\* --dry-run writes nothing, a sync that failed may have stopped anywhere
RunDeploy(dry, o) ==
    LET cmd == DeployCommand(dry)
        promoted == Rsync(staging, production, EffectiveExcludes(cmd))
        emptied == DeleteExtraneous(staging, EffectiveExcludes(cmd))
    IN  /\ calls' = Append(calls, Call("deploy_staging_to_production",
                                      cmd.dry_run_flag, EffectiveExcludes(cmd)))
        /\ proc' = o
        /\ IF cmd.dry_run_flag THEN production' = production /\ staging' = staging
           ELSE IF ~o.raised /\ o.returncode = 0
           THEN production' = promoted /\ staging' = emptied
           ELSE /\ production' \in {production, promoted}
                /\ staging' \in {staging, emptied}

\* a dry-run block that reports the outcome of the preview as the verdict
DryRunSteps_preview_verdict(s, deploy_result) ==
    Put(Put(Put(s, "deploy", Put(deploy_result, "dry_run", TRUE)),
            "overall_success", deploy_result.success), "dry_run_mode", TRUE)

\* the report of the dry-run block of main()
DryRunSteps(s, deploy_result) ==
    Put(Put(Put(s, "deploy", Put(deploy_result, "dry_run", TRUE)),
            "overall_success", TRUE), "dry_run_mode", TRUE)

\* the dry-run block of main(): preview, report, exit 0
DryRunDeploy ==
    /\ pc = "dry_run"
    /\ \E o \in RsyncOutcomes :
         LET r == DryRunSteps(steps, DeployResult(o, TRUE))
         IN  /\ RunDeploy(TRUE, o)
             /\ steps' = r
             /\ emitted' = IF output_json THEN Echo(r)
                           ELSE Append(Echo(r), [format |-> "note", steps |-> r])
             /\ Exit(0)
    /\ UNCHANGED <<env_ok, skip_push, force, skip_pull, posts, wait_timeout, backups_after, path_exists, tree, no_backup, dry_run, output_json,
                   client_open, backups_before, elapsed>>

----------------------------------------------------------------------------
(* Controller API *)

Backup(i) == [slug |-> i, name |-> <<"backup", i>>, size |-> 1024 * i]

Slugs(listing) == {b.slug : b \in listing}

\* the identifier the controller gives the backup that this run's create
\* request starts; every other identifier is a backup of another origin
OwnSlug == 1

\* GET /backup/info: a listing, or raise_for_status / the transport raising
ListOutcomes ==
    {[raised |-> FALSE, exc |-> None, backups |-> l] : l \in SUBSET {Backup(i) : i \in 1..MaxSlug}}
        \cup {[raised |-> TRUE, exc |-> e, backups |-> {}] :
                 e \in {"404 Not Found", "500 Server Error", "ReadTimeout"}}

\* answers to a POST
PostOutcomes == {"200", "404", "500", "ConnectError", "ReadTimeout"}

\* leaving the `with HomeAssistantClient()` block by an exception
Raise(s, message) == Fail(s, message) /\ client_open' = FALSE

\* the abort blocks inside the `with` block: sys.exit(1) closes the client
AbortInClient(s, reason) == Abort(s, reason) /\ client_open' = FALSE

\* Step 3: backup (unless --no-backup); wait_for_backup starts by listing the
\* slugs that exist before the trigger
BackupBegin ==
    /\ pc = "backup"
    /\ IF no_backup
       THEN /\ steps' = Put(steps, "backup", [skipped |-> TRUE])
            /\ pc' = "deploy"
            /\ client_open' = TRUE
            /\ proc' = NoProc
            /\ UNCHANGED <<backups_before, calls, emitted, exit_code>>
       ELSE /\ calls' = Append(calls, Call("list_backups", FALSE, {}))
            /\ proc' = NoProc
            /\ \E r \in ListOutcomes :
                 IF r.raised
                 THEN Raise(steps, r.exc) /\ UNCHANGED backups_before
                 ELSE /\ backups_before' = Slugs(r.backups)
                      /\ pc' = "backup_create"
                      /\ client_open' = TRUE
                      /\ UNCHANGED <<steps, emitted, exit_code>>
    /\ UNCHANGED <<env_ok, skip_push, force, skip_pull, posts, wait_timeout, backups_after, path_exists, tree, no_backup, dry_run, output_json,
                   elapsed, staging, production>>

\* a client that falls back to the legacy endpoint on any failure
UseLegacy_on_any_failure(status) == status # "200"

\* create_backup: `if error.response.status_code == 404` in the handler of
\* httpx.HTTPStatusError
UseLegacy(status) == status = "404"

\* HomeAssistantClient.create_backup: backup.create_automatic, and
\* backup.create when that answers 404
BackupCreate ==
    /\ pc = "backup_create"
    /\ \E first \in PostOutcomes :
         IF first = "200"
         THEN /\ calls' = Append(calls, Call("create_backup", FALSE, {}))
              /\ posts' = <<first>>
              /\ pc' = "backup_poll"
              /\ UNCHANGED <<steps, emitted, exit_code, client_open, backups_before>>
         ELSE IF UseLegacy(first)
         THEN /\ calls' = calls \o <<Call("create_backup", FALSE, {}),
                                     Call("create_backup_legacy", FALSE, {})>>
              /\ \E second \in PostOutcomes :
                   /\ posts' = <<first, second>>
                   /\ IF second = "200"
                      THEN /\ pc' = "backup_poll"
                           /\ UNCHANGED <<steps, emitted, exit_code, client_open,
                                          backups_before>>
                      ELSE Raise(steps, second) /\ UNCHANGED backups_before
         ELSE /\ calls' = Append(calls, Call("create_backup", FALSE, {}))
              /\ posts' = <<first>>
              /\ Raise(steps, first)
              /\ UNCHANGED backups_before
    /\ elapsed' = 0
    /\ UNCHANGED <<env_ok, skip_push, force, skip_pull, wait_timeout, backups_after, path_exists, tree, no_backup, dry_run, output_json,
                   proc, staging, production>>

\* a wait that takes name and size from whichever entry comes first
BackupFound_first_entry(listing, new_slug) ==
    LET backup_info == CHOOSE b \in listing : TRUE
    IN  [success |-> TRUE, backup_id |-> new_slug,
         name |-> backup_info.name, size |-> backup_info.size]

\* the success result of wait_for_backup for the slug it picked
BackupFound(listing, new_slug) ==
    LET backup_info == CHOOSE b \in listing : b.slug = new_slug
    IN  [success |-> TRUE, backup_id |-> new_slug,
         name |-> backup_info.name, size |-> backup_info.size]

\* a wait that reports the end of the loop as a backup without a slug
BackupExpired_as_success == [success |-> TRUE, backup_id |-> None, name |-> None, size |-> None]

\* the failure result of wait_for_backup once the loop has run out of time
BackupExpired == [success |-> FALSE, error |-> "Backup did not complete"]

\* a coordinator that goes on whatever the backup step returned
BackupFailed_ignored(backup_result) == FALSE

\* main(): `if not backup_result["success"]` aborts the run
BackupFailed(backup_result) == ~backup_result.success

\* the time a listing request takes on top of the sleep: next to none, or as
\* long as the sleep itself (the client waits up to API_TIMEOUT for an answer)
ListLatency == {0, PollInterval}

\* a loop that takes start_time anew on every turn
TimeAfterPoll_restarted(e, d) == 0

\* time.time() - start_time at the next test of the loop condition
TimeAfterPoll(e, d) == e + PollInterval + d

\* one turn of the poll loop: sleep, list, look for an unseen slug; the clock
\* the loop condition reads has moved by the sleep and by the request
BackupPoll ==
    /\ pc = "backup_poll"
    /\ elapsed < wait_timeout
    /\ calls' = Append(calls, Call("list_backups", FALSE, {}))
    /\ \E r \in ListOutcomes :
         IF r.raised
         THEN /\ Raise(steps, r.exc)
              /\ UNCHANGED <<backups_before, backups_after>>
              /\ elapsed' = 0
         ELSE LET new_slugs == Slugs(r.backups) \ backups_before
              IN  IF new_slugs # {}
                  THEN \E new_slug \in new_slugs :
                         LET backup_result == BackupFound(r.backups, new_slug)
                             s == Put(steps, "backup", backup_result)
                         IN  /\ IF BackupFailed(backup_result)
                                THEN AbortInClient(s, "Backup failed")
                                ELSE /\ steps' = s
                                     /\ pc' = "deploy"
                                     /\ UNCHANGED <<emitted, exit_code, client_open>>
                             /\ backups_after' = r.backups
                             /\ UNCHANGED backups_before
                             /\ elapsed' = 0
                  ELSE /\ \E d \in ListLatency : elapsed' = TimeAfterPoll(elapsed, d)
                       /\ backups_after' = r.backups
                       /\ UNCHANGED <<pc, steps, emitted, exit_code, client_open,
                                      backups_before>>
    /\ UNCHANGED <<env_ok, skip_push, force, skip_pull, posts, wait_timeout, path_exists, tree, no_backup, dry_run, output_json,
                   proc, staging, production>>

\* the loop ran out of time: wait_for_backup returns a failure and main aborts
BackupTimedOut ==
    /\ pc = "backup_poll"
    /\ ~(elapsed < wait_timeout)
    /\ LET backup_result == BackupExpired
           s == Put(steps, "backup", backup_result)
       IN  IF BackupFailed(backup_result)
           THEN AbortInClient(s, "Backup failed")
           ELSE /\ steps' = s
                /\ pc' = "deploy"
                /\ UNCHANGED <<emitted, exit_code, client_open>>
    /\ UNCHANGED backups_before
    /\ elapsed' = 0
    /\ UNCHANGED <<env_ok, skip_push, force, skip_pull, posts, wait_timeout, backups_after, path_exists, tree, no_backup, dry_run, output_json,
                   proc, calls, staging, production>>

\* Step 4: deploy staging to production
Deploy ==
    /\ pc = "deploy"
    /\ \E o \in RsyncOutcomes :
         LET deploy_result == DeployResult(o, FALSE)
             s == Put(steps, "deploy", deploy_result)
         IN  /\ RunDeploy(FALSE, o)
             /\ IF ~deploy_result.success
                THEN AbortInClient(s, "Deploy failed")
                ELSE /\ steps' = s
                     /\ pc' = "ha_check"
                     /\ UNCHANGED <<emitted, exit_code, client_open>>
    /\ backups_before' = {}
    /\ backups_after' = {}
    /\ UNCHANGED <<env_ok, skip_push, force, skip_pull, posts, wait_timeout, path_exists, tree, no_backup, dry_run, output_json,
                   elapsed>>

----------------------------------------------------------------------------
(* ha core check *)

\* what `ha core check --raw-json` can print: a JSON object whose result is
\* ok or not, JSON that is no object, or text that is no JSON; each with or
\* without the word "unauthorized" in it
CheckStdout == [json : {"ok", "error", "nonobject", "none"}, unauthorized : BOOLEAN]

CheckOutcomes ==
    {o \in {Proc(rc, out, [unauthorized |-> u]) :
                rc \in {0, 1}, out \in CheckStdout, u \in BOOLEAN} :
        ~(o.stdout.unauthorized /\ o.stderr.unauthorized)}
        \cup {Raised("timed out after 120 seconds")}

\* f"ha core check unavailable: {error}"
UnavailableNote(error) ==
    IF error = "timed out after 120 seconds"
    THEN "ha core check unavailable: timed out after 120 seconds"
    ELSE "ha core check unavailable: 'list' object has no attribute 'get'"

\* a classifier that parses the output before it looks for the marker
CheckResult_parse_first(p) ==
    IF p.raised
    THEN [success |-> TRUE, skipped |-> TRUE, note |-> UnavailableNote(p.exc)]
    ELSE IF p.stdout.json = "ok"
    THEN [success |-> TRUE, output |-> "json", error |-> None]
    ELSE IF p.stdout.json = "error"
    THEN [success |-> FALSE, output |-> "json", error |-> "message"]
    ELSE IF p.stderr.unauthorized \/ p.stdout.unauthorized
    THEN [success |-> TRUE, skipped |-> TRUE,
          note |-> "ha core check not available via SSH (auth required)"]
    ELSE IF p.stdout.json = "nonobject"
    THEN [success |-> TRUE, skipped |-> TRUE,
          note |-> UnavailableNote("'list' object has no attribute 'get'")]
    ELSE IF p.returncode = 0
    THEN [success |-> TRUE, output |-> "raw"]
    ELSE [success |-> TRUE, skipped |-> TRUE,
          note |-> "Could not parse ha core check output"]

\* a classifier that takes any output it cannot parse as a pass
CheckResult_raw_always_valid(p) ==
    IF p.raised
    THEN [success |-> TRUE, skipped |-> TRUE, note |-> UnavailableNote(p.exc)]
    ELSE IF p.stderr.unauthorized \/ p.stdout.unauthorized
    THEN [success |-> TRUE, skipped |-> TRUE,
          note |-> "ha core check not available via SSH (auth required)"]
    ELSE IF p.stdout.json = "ok"
    THEN [success |-> TRUE, output |-> "json", error |-> None]
    ELSE IF p.stdout.json = "error"
    THEN [success |-> FALSE, output |-> "json", error |-> "message"]
    ELSE IF p.stdout.json = "nonobject"
    THEN [success |-> TRUE, skipped |-> TRUE,
          note |-> UnavailableNote("'list' object has no attribute 'get'")]
    ELSE [success |-> TRUE, output |-> "raw"]

\* the result dict of run_ha_core_check
CheckResult(p) ==
    IF p.raised
    THEN [success |-> TRUE, skipped |-> TRUE, note |-> UnavailableNote(p.exc)]
    ELSE IF p.stderr.unauthorized \/ p.stdout.unauthorized
    THEN [success |-> TRUE, skipped |-> TRUE,
          note |-> "ha core check not available via SSH (auth required)"]
    ELSE IF p.stdout.json = "ok"
    THEN [success |-> TRUE, output |-> "json", error |-> None]
    ELSE IF p.stdout.json = "error"
    THEN [success |-> FALSE, output |-> "json", error |-> "message"]
    ELSE IF p.stdout.json = "nonobject"
    THEN [success |-> TRUE, skipped |-> TRUE,
          note |-> UnavailableNote("'list' object has no attribute 'get'")]
    ELSE IF p.returncode = 0
    THEN [success |-> TRUE, output |-> "raw"]
    ELSE [success |-> TRUE, skipped |-> TRUE,
          note |-> "Could not parse ha core check output"]

\* a coordinator that stops at a check that found the configuration invalid
AfterCheck_stop_when_invalid(check_result) ==
    IF check_result.success THEN "reload" ELSE "done"

\* main(): no branch follows step 5; step 6 comes next whatever it returned
AfterCheck(check_result) == "reload"

\* Step 5: HA core check
HaCheck ==
    /\ pc = "ha_check"
    /\ calls' = Append(calls, Call("ha_core_check", FALSE, {}))
    /\ \E o \in CheckOutcomes :
         /\ proc' = o
         /\ steps' = Put(steps, "ha_check", CheckResult(o))
         /\ pc' = AfterCheck(CheckResult(o))
    /\ UNCHANGED <<env_ok, skip_push, force, skip_pull, posts, wait_timeout, backups_after, path_exists, tree, no_backup, dry_run, output_json,
                   client_open, backups_before, elapsed, staging, production, emitted, exit_code>>

----------------------------------------------------------------------------
(* Reload *)

reload_services ==
    << "homeassistant.reload_core_config", "automation.reload", "script.reload",
       "scene.reload", "input_boolean.reload", "input_number.reload",
       "input_select.reload", "input_text.reload" >>

\* the services whose call raises in a run: none, the first, the last, two in
\* the middle, or all of them
FailurePatterns ==
    { {}, {"homeassistant.reload_core_config"}, {"input_text.reload"},
      {"automation.reload", "scene.reload"}, Range(reload_services) }

\* the calls the loop of reload_home_assistant makes: every service, in order
ReloadCalls == [i \in 1..Len(reload_services) |-> Call(reload_services[i], FALSE, {})]

\* a loop that gives up at the first service whose call raises
reload_home_assistant_stop_at_first(failing) ==
    LET first == CHOOSE i \in 1..(Len(reload_services) + 1) :
                    /\ \A j \in 1..(i - 1) : reload_services[j] \notin failing
                    /\ i <= Len(reload_services) => reload_services[i] \in failing
        done == SubSeq(reload_services, 1, first - 1)
        failed == IF first <= Len(reload_services) THEN <<reload_services[first]>> ELSE <<>>
    IN  [success |-> Len(failed) = 0, reloaded |-> done, errors |-> failed]

\* the result dict of reload_home_assistant when the services in `failing`
\* raise: each service is filed under reloaded or under errors, in call order
reload_home_assistant(failing) ==
    LET done == SelectSeq(reload_services, LAMBDA x : x \notin failing)
        failed == SelectSeq(reload_services, LAMBDA x : x \in failing)
    IN  [success |-> Len(failed) = 0, reloaded |-> done, errors |-> failed]

\* a verdict that leaves the reload result out
OverallSuccess_without_reload(s) ==
    /\ Get(Get(s, "deploy", EmptyDict), "success", FALSE)
    /\ Get(Get(s, "ha_check", EmptyDict), "success", FALSE)

\* main(): overall_success of a run that reached the end
OverallSuccess(s) ==
    LET reload_ok == Get(Get(s, "reload", EmptyDict), "success", TRUE)
    IN  /\ Get(Get(s, "deploy", EmptyDict), "success", FALSE)
        /\ Get(Get(s, "ha_check", EmptyDict), "success", FALSE)
        /\ reload_ok

\* an exit status that does not look at the verdict
ExitStatus_always_zero(s) == 0

\* main(): sys.exit(0 if steps["overall_success"] else 1)
ExitStatus(s) == IF s["overall_success"] THEN 0 ELSE 1

\* Step 6: reload, then the overall verdict, the report and the exit status
Reload ==
    /\ pc = "reload"
    /\ calls' = calls \o ReloadCalls
    /\ proc' = NoProc
    /\ \E failing \in FailurePatterns :
         LET s == Put(steps, "reload", reload_home_assistant(failing))
             r == Put(s, "overall_success", OverallSuccess(s))
         IN  /\ steps' = r
             /\ emitted' = Echo(r)
             /\ Exit(ExitStatus(r))
    /\ client_open' = FALSE
    /\ UNCHANGED <<env_ok, skip_push, force, skip_pull, posts, wait_timeout, backups_after, path_exists, tree, no_backup, dry_run, output_json,
                   backups_before, elapsed, staging, production>>

Next ==
    \/ Startup \/ Validate \/ Stage \/ CopySecrets \/ DryRunDeploy
    \/ BackupBegin \/ BackupCreate \/ BackupPoll \/ BackupTimedOut
    \/ Deploy \/ HaCheck \/ Reload

Spec == Init /\ [][Next]_vars

----------------------------------------------------------------------------
(* wait_for_backup(client, timeout) on its own *)

\* the timeouts wait_for_backup is run with: none, negative, and every
\* number of seconds up to the budget
Timeouts == (0 - PollInterval)..timeout

\* the run stands before step 3 and the function is given any timeout
WaitInit ==
    /\ pc = "backup"
    /\ env_ok = TRUE
    /\ path_exists = TRUE
    /\ tree = [f \in LocalFiles |-> "absent"]
    /\ no_backup = FALSE
    /\ dry_run = FALSE
    /\ output_json \in BOOLEAN
    /\ skip_push = FALSE
    /\ force = FALSE
    /\ skip_pull = FALSE
    /\ steps = EmptyDict
    /\ proc = NoProc
    /\ client_open = FALSE
    /\ posts = <<>>
    /\ wait_timeout \in Timeouts
    /\ backups_before = {}
    /\ backups_after = {}
    /\ elapsed = 0
    /\ calls = <<>>
    /\ staging = InitialStaging
    /\ production = InitialProduction
    /\ emitted = <<>>
    /\ exit_code = NoExit

WaitNext == BackupBegin \/ BackupCreate \/ BackupPoll \/ BackupTimedOut

WaitSpec == WaitInit /\ [][WaitNext]_vars

\* the function is sequential code: it takes its next step as long as it has one
WaitFairSpec == WaitSpec /\ WF_vars(WaitNext)

----------------------------------------------------------------------------
(* validate-config.py *)

\* validate_yaml_file of validate-config.py: a document that cannot be read
\* is a result too, its error prefixed "Read error: "
vc_validate_yaml_file(t, f) ==
    [file |-> f.name, path |-> f, valid |-> t[f] = "valid",
     error |-> CASE t[f] = "valid" -> None
                 [] t[f] = "invalid" -> "YAMLError"
                 [] OTHER -> "Read error: PermissionError"]

RECURSIVE VcValidateEach(_, _)
VcValidateEach(t, files) ==
    IF files = <<>> THEN <<>>
    ELSE IF Head(files).name = "secrets.yaml"
         THEN VcValidateEach(t, Tail(files))
         ELSE <<vc_validate_yaml_file(t, Head(files))>> \o VcValidateEach(t, Tail(files))

validate_all_yaml_files(t) ==
    VcValidateEach(t, Sorted(Glob(t, ".yaml") \cup Glob(t, ".yml")))

\* the --exclude list of validate-config.py's staging push
VC_STAGING_EXCLUDES ==
    << ".git/", ".gitignore", "secrets.yaml", ".storage/", "backups/", "*.db",
       "*.log", "*.log.*", "home-assistant.log*", "tts/", "deps/", "__pycache__/" >>

\* the result dict of validate-config.py's rsync_to_staging
VcRsyncResult(p, transferred) ==
    IF p.raised
    THEN [success |-> FALSE, files_transferred |-> 0,
          error |-> IF p.exc = "timed out after 120 seconds"
                    THEN "rsync timed out after 120 seconds" ELSE p.exc]
    ELSE IF p.returncode = 0
    THEN [success |-> TRUE, files_transferred |-> transferred, error |-> None]
    ELSE [success |-> FALSE, files_transferred |-> 0,
          error |-> IF p.stderr # "" THEN p.stderr ELSE "rsync failed with exit code"]

\* main(): `if rsync_result["success"]:` guards step 3
VcAfterRsync(rsync_result) == IF rsync_result.success THEN "vc_secrets" ELSE "vc_report"

NoSecretsFound == "No secrets.yaml found (OK if not using secrets)"

\* outcomes of subprocess.run for "cp src dst 2>/dev/null || echo '...'": cp
\* worked, cp failed and the echo ran, ssh itself failed with or without
\* text, the 30 s ran out, or ssh could not be started
VcSecretsOutcomes ==
    { Proc(0, "", ""),
      Proc(0, NoSecretsFound, ""),
      Proc(255, "", "ssh: connect to host refused"),
      Proc(255, "", ""),
      Raised("timed out after 30 seconds"),
      Raised("No such file or directory") }

\* the result dict of validate-config.py's copy_secrets_to_staging
VcSecretsResult(p) ==
    IF p.raised
    THEN [success |-> FALSE,
          error |-> IF p.exc = "timed out after 30 seconds"
                    THEN "SSH command timed out" ELSE p.exc]
    ELSE IF p.returncode # 0
    THEN [success |-> FALSE,
          error |-> IF p.stderr # "" THEN p.stderr ELSE "Failed to copy secrets.yaml"]
    ELSE IF p.stdout = NoSecretsFound
    THEN [success |-> TRUE, error |-> None,
          note |-> "secrets.yaml not found in production (OK if not using secrets)"]
    ELSE [success |-> TRUE, error |-> None]

Skipped == [success |-> TRUE, skipped |-> TRUE]

\* main(): overall_valid
OverallValid(yaml_errors, rsync_result, secrets_result) ==
    Len(yaml_errors) = 0 /\ (skip_push \/ rsync_result.success)

VcPositions == {"vc_main", "vc_validate", "vc_rsync", "vc_secrets", "vc_report", "vc_done"}

VcInit ==
    /\ pc = "vc_main"
    /\ env_ok \in BOOLEAN
    /\ path_exists \in BOOLEAN
    /\ tree \in AllTrees
    /\ Cardinality({f \in LocalFiles : tree[f] # "absent"}) <= MaxFiles
    /\ (~path_exists => \A f \in LocalFiles : tree[f] = "absent")
    /\ no_backup = FALSE
    /\ dry_run = FALSE
    /\ output_json \in BOOLEAN
    /\ skip_push \in BOOLEAN
    /\ force = FALSE
    /\ skip_pull = FALSE
    /\ steps = EmptyDict
    /\ proc = NoProc
    /\ client_open = FALSE
    /\ posts = <<>>
    /\ wait_timeout = timeout
    /\ backups_before = {}
    /\ backups_after = {}
    /\ elapsed = 0
    /\ calls = <<>>
    /\ staging = InitialStaging
    /\ production = InitialProduction
    /\ emitted = <<>>
    /\ exit_code = NoExit

\* sys.exit(code) of validate-config.py
VcExit(code) == pc' = "vc_done" /\ exit_code' = code

\* get_required_env("HA_SSH_HOST") unless --skip-push, then the existence
\* check of the local path, which raises click.UsageError (exit status 2)
VcStartup ==
    /\ pc = "vc_main"
    /\ IF ~skip_push /\ ~env_ok THEN VcExit(1)
       ELSE IF ~path_exists THEN VcExit(2)
       ELSE pc' = "vc_validate" /\ UNCHANGED exit_code
    /\ UNCHANGED <<env_ok, skip_push, force, skip_pull, posts, wait_timeout, backups_after, path_exists, tree,
                   no_backup, dry_run, output_json, steps, proc, client_open,
                   backups_before, elapsed, calls, staging, production, emitted>>

\* Step 1: validate YAML syntax locally; the push and the copy start as skipped
VcValidate ==
    /\ pc = "vc_validate"
    /\ LET yaml_results == validate_all_yaml_files(tree)
           yaml_errors == SelectSeq(yaml_results, LAMBDA r : ~r.valid)
       IN  /\ steps' = [yaml_validation |-> yaml_results,
                        rsync |-> Skipped, secrets |-> Skipped]
           /\ pc' = IF Len(yaml_errors) = 0 /\ ~skip_push THEN "vc_rsync" ELSE "vc_report"
    /\ UNCHANGED <<env_ok, skip_push, force, skip_pull, posts, wait_timeout, backups_after, path_exists, tree,
                   no_backup, dry_run, output_json, proc, client_open,
                   backups_before, elapsed, calls, staging, production, emitted, exit_code>>

\* Step 2: push to staging
VcStage ==
    /\ pc = "vc_rsync"
    /\ calls' = Append(calls, Call("rsync_to_staging", FALSE, Range(VC_STAGING_EXCLUDES)))
    /\ \E o \in RsyncOutcomes :
         LET pushed == Rsync(LocalEntries(tree), staging, Range(VC_STAGING_EXCLUDES))
             sent == {e \in LocalEntries(tree) : ~Excluded(Range(VC_STAGING_EXCLUDES), e.file)}
             rsync_result == VcRsyncResult(o, Cardinality(sent))
         IN  /\ proc' = o
             /\ IF ~o.raised /\ o.returncode = 0
                THEN staging' = pushed
                ELSE staging' \in {staging, pushed}
             /\ steps' = [steps EXCEPT !.rsync = rsync_result]
             /\ pc' = VcAfterRsync(rsync_result)
    /\ UNCHANGED <<env_ok, skip_push, force, skip_pull, posts, wait_timeout, backups_after, path_exists, tree,
                   no_backup, dry_run, output_json, client_open,
                   backups_before, elapsed, production, emitted, exit_code>>

\* Step 3: copy secrets to staging
VcCopySecrets ==
    /\ pc = "vc_secrets"
    /\ calls' = Append(calls, Call("copy_secrets_to_staging", FALSE, {}))
    /\ \E o \in VcSecretsOutcomes :
         /\ proc' = o
         /\ IF o.raised
            THEN staging' \in {staging, CopySecret(production, staging)}
            ELSE IF o.returncode = 0 /\ o.stdout = ""
            THEN staging' = CopySecret(production, staging)
            ELSE staging' = staging
         /\ steps' = [steps EXCEPT !.secrets = VcSecretsResult(o)]
         /\ pc' = "vc_report"
    /\ UNCHANGED <<env_ok, skip_push, force, skip_pull, posts, wait_timeout, backups_after, path_exists, tree,
                   no_backup, dry_run, output_json, client_open,
                   backups_before, elapsed, production, emitted, exit_code>>

\* the verdict, the report and the exit status
VcReport ==
    /\ pc = "vc_report"
    /\ LET yaml_errors == SelectSeq(steps.yaml_validation, LAMBDA r : ~r.valid)
           overall_valid == OverallValid(yaml_errors, steps.rsync, steps.secrets)
           result == [valid |-> overall_valid,
                      yaml_validation |-> steps.yaml_validation,
                      rsync |-> IF skip_push THEN [skipped |-> TRUE] ELSE steps.rsync,
                      secrets |-> IF skip_push THEN [skipped |-> TRUE] ELSE steps.secrets]
       IN  /\ steps' = result
           /\ emitted' = Echo(result)
           /\ VcExit(IF overall_valid THEN 0 ELSE 1)
    /\ UNCHANGED <<env_ok, skip_push, force, skip_pull, posts, wait_timeout, backups_after, path_exists, tree,
                   no_backup, dry_run, output_json, proc, client_open,
                   backups_before, elapsed, calls, staging, production>>

VcNext == VcStartup \/ VcValidate \/ VcStage \/ VcCopySecrets \/ VcReport

\* a run of validate-config.py
ValidateConfigSpec == VcInit /\ [][VcNext]_vars

\* a run of either tool
ToolsInit == Init \/ VcInit

ToolsNext == Next \/ VcNext

ToolsSpec == ToolsInit /\ [][ToolsNext]_vars

----------------------------------------------------------------------------
(* init-config.py *)

\* files to exclude from rsync (never pull from HA)
IC_RSYNC_EXCLUDES ==
    << ".storage/", "backups/", "secrets.yaml", "*.db", "*.db-shm", "*.db-wal",
       "home-assistant.log*", "*.log", "tts/", "deps/", "__pycache__/",
       ".cloud/", ".ha_run.lock", ".HA_VERSION" >>

\* error_exit(message): one JSON object or one line on stderr, then exit
ErrorExit(message) ==
    /\ emitted' = Append(emitted, [format |-> IF output_json THEN "json" ELSE "stderr",
                                   steps |-> [success |-> FALSE, error |-> message]])
    /\ pc' = "ic_done"
    /\ exit_code' = 1

\* what rsync -av (no --delete) from the production path brings: its files
\* that no pattern excludes, the staging directory inside it included
Pullable ==
    {e \in production \cup (IF StagingInsideProduction THEN staging ELSE {}) :
        ~Excluded(Range(IC_RSYNC_EXCLUDES), e.file)}

\* the local tree after a pull into the fresh directory
PulledTree ==
    [f \in LocalFiles |-> IF \E e \in production : e.file = f /\ e \in Pullable
                          THEN "valid" ELSE "absent"]

\* count_files: the .yaml and .yml files at any depth
count_files == Cardinality({e \in Pullable : e.file.suffix \in {".yaml", ".yml"}})

IcInit ==
    /\ pc = "ic_main"
    /\ env_ok \in BOOLEAN
    /\ path_exists \in BOOLEAN
    /\ tree \in Trees
    /\ Cardinality({f \in LocalFiles : tree[f] # "absent"}) <= MaxFiles
    /\ (~path_exists => \A f \in LocalFiles : tree[f] = "absent")
    /\ no_backup = FALSE
    /\ dry_run = FALSE
    /\ output_json \in BOOLEAN
    /\ skip_push = FALSE
    /\ force \in BOOLEAN
    /\ skip_pull \in BOOLEAN
    /\ steps = EmptyDict
    /\ proc = NoProc
    /\ client_open = FALSE
    /\ posts = <<>>
    /\ wait_timeout = timeout
    /\ backups_before = {}
    /\ backups_after = {}
    /\ elapsed = 0
    /\ calls = <<>>
    /\ staging = InitialStaging
    /\ production = InitialProduction
    /\ emitted = <<>>
    /\ exit_code = NoExit

\* Step 1: get required env var
IcEnvironment ==
    /\ pc = "ic_main"
    /\ IF ~env_ok THEN ErrorExit("HA_SSH_HOST not set")
       ELSE pc' = "ic_exists" /\ UNCHANGED <<emitted, exit_code>>
    /\ UNCHANGED <<env_ok, skip_push, force, skip_pull, posts, wait_timeout, backups_after,
                   path_exists, tree, no_backup, dry_run, output_json, steps, proc,
                   client_open, backups_before, elapsed, calls, staging, production>>

\* Step 2: check if directory exists; with --force it is removed here
IcExisting ==
    /\ pc = "ic_exists"
    /\ IF path_exists /\ ~force
       THEN /\ ErrorExit("Directory already exists")
            /\ UNCHANGED <<path_exists, tree, calls>>
       ELSE IF path_exists
       THEN /\ calls' = Append(calls, Call("rmtree", FALSE, {}))
            /\ path_exists' = FALSE
            /\ tree' = [f \in LocalFiles |-> "absent"]
            /\ pc' = "ic_ssh"
            /\ UNCHANGED <<emitted, exit_code>>
       ELSE /\ pc' = "ic_ssh"
            /\ UNCHANGED <<path_exists, tree, calls, emitted, exit_code>>
    /\ UNCHANGED <<env_ok, skip_push, force, skip_pull, posts, wait_timeout, backups_after,
                   no_backup, dry_run, output_json, steps, proc,
                   client_open, backups_before, elapsed, staging, production>>

\* outcomes of the two remote checks: the ssh command exits 0, exits
\* non-zero, or subprocess.run raises
CheckSshOutcomes ==
    { Proc(0, "ok", ""), Proc(255, "", "ssh: connect to host refused"),
      Raised("timed out after 10 seconds") }

check_ssh_connection(p) == ~p.raised /\ p.returncode = 0 /\ p.stdout = "ok"

ConfigExistsOutcomes ==
    { Proc(0, "", ""), Proc(1, "", ""), Raised("timed out after 10 seconds") }

check_ha_config_exists(p) == ~p.raised /\ p.returncode = 0

\* Step 3: check SSH connection
IcCheckSsh ==
    /\ pc = "ic_ssh"
    /\ calls' = Append(calls, Call("check_ssh_connection", FALSE, {}))
    /\ \E o \in CheckSshOutcomes :
         /\ proc' = o
         /\ IF ~check_ssh_connection(o) THEN ErrorExit("Cannot connect")
            ELSE pc' = "ic_config" /\ UNCHANGED <<emitted, exit_code>>
    /\ UNCHANGED <<env_ok, skip_push, force, skip_pull, posts, wait_timeout, backups_after,
                   path_exists, tree, no_backup, dry_run, output_json, steps,
                   client_open, backups_before, elapsed, staging, production>>

\* Step 4: check HA config exists
IcCheckConfig ==
    /\ pc = "ic_config"
    /\ calls' = Append(calls, Call("check_ha_config_exists", FALSE, {}))
    /\ \E o \in ConfigExistsOutcomes :
         /\ proc' = o
         /\ IF ~check_ha_config_exists(o) THEN ErrorExit("HA config not found")
            ELSE pc' = "ic_create" /\ UNCHANGED <<emitted, exit_code>>
    /\ UNCHANGED <<env_ok, skip_push, force, skip_pull, posts, wait_timeout, backups_after,
                   path_exists, tree, no_backup, dry_run, output_json, steps,
                   client_open, backups_before, elapsed, staging, production>>

\* Steps 5 and 6: create the local directory and its .gitignore
IcCreate ==
    /\ pc = "ic_create"
    /\ calls' = Append(calls, Call("mkdir", FALSE, {}))
    /\ path_exists' = TRUE
    /\ steps' = Put(steps, "gitignore", TRUE)
    /\ pc' = "ic_pull"
    /\ UNCHANGED <<env_ok, skip_push, force, skip_pull, posts, wait_timeout, backups_after,
                   tree, no_backup, dry_run, output_json, proc, client_open,
                   backups_before, elapsed, staging, production, emitted, exit_code>>

\* the (success, output) pair of pull_config
PullResult(p) ==
    IF p.raised
    THEN [success |-> FALSE,
          output |-> IF p.exc = "timed out after 120 seconds"
                     THEN "rsync timed out after 5 minutes" ELSE p.exc]
    ELSE IF p.returncode = 0 THEN [success |-> TRUE, output |-> p.stdout]
    ELSE [success |-> FALSE, output |-> p.stderr]

\* Step 7: pull config from HA, unless --skip-pull
IcPull ==
    /\ pc = "ic_pull"
    /\ IF skip_pull
       THEN /\ steps' = Put(steps, "files_pulled", 0)
            /\ pc' = "ic_staging"
            /\ UNCHANGED <<calls, proc, tree, emitted, exit_code>>
       ELSE /\ calls' = Append(calls, Call("pull_config", FALSE, Range(IC_RSYNC_EXCLUDES)))
            /\ \E o \in RsyncOutcomes :
                 /\ proc' = o
                 /\ IF PullResult(o).success
                    THEN /\ tree' = PulledTree
                         /\ steps' = Put(steps, "files_pulled", count_files)
                         /\ pc' = "ic_staging"
                         /\ UNCHANGED <<emitted, exit_code>>
                    ELSE /\ tree' \in {tree, PulledTree}
                         /\ ErrorExit("Failed to pull config")
                         /\ UNCHANGED steps
    /\ UNCHANGED <<env_ok, skip_push, force, skip_pull, posts, wait_timeout, backups_after,
                   path_exists, no_backup, dry_run, output_json, client_open,
                   backups_before, elapsed, staging, production>>

\* Step 8: create staging directory on HA; mkdir -p leaves an existing one
\* as it is, and a failure is only noted
IcStagingDir ==
    /\ pc = "ic_staging"
    /\ calls' = Append(calls, Call("create_staging_dir", FALSE, {}))
    /\ \E staging_created \in BOOLEAN :
         steps' = Put(steps, "staging_created", staging_created)
    /\ pc' = "ic_git"
    /\ UNCHANGED <<env_ok, skip_push, force, skip_pull, posts, wait_timeout, backups_after,
                   path_exists, tree, no_backup, dry_run, output_json, proc, client_open,
                   backups_before, elapsed, staging, production, emitted, exit_code>>

\* Steps 9 and 10: git init, which is fatal when it fails, the initial
\* commit, which is not, and the closing report
IcGit ==
    /\ pc = "ic_git"
    /\ \E git_initialized \in BOOLEAN, commit_created \in BOOLEAN :
         IF ~git_initialized
         THEN ErrorExit("Failed to initialize git") /\ UNCHANGED steps
         ELSE LET r == [success |-> TRUE, files_pulled |-> steps.files_pulled,
                        skipped_pull |-> skip_pull, git_initialized |-> TRUE,
                        initial_commit |-> commit_created]
              IN  /\ steps' = r
                  /\ emitted' = Echo(r)
                  /\ pc' = "ic_done"
                  /\ exit_code' = 0
    /\ UNCHANGED <<env_ok, skip_push, force, skip_pull, posts, wait_timeout, backups_after,
                   path_exists, tree, no_backup, dry_run, output_json, proc, client_open,
                   backups_before, elapsed, calls, staging, production>>

IcNext ==
    \/ IcEnvironment \/ IcExisting \/ IcCheckSsh \/ IcCheckConfig
    \/ IcCreate \/ IcPull \/ IcStagingDir \/ IcGit

\* a run of init-config.py
InitConfigSpec == IcInit /\ [][IcNext]_vars

----------------------------------------------------------------------------
(* The two local validators on their own *)

\* any tree within the bound, unreadable documents included
ValidatorsInit ==
    /\ pc = "validators"
    /\ env_ok = TRUE
    /\ path_exists = TRUE
    /\ tree \in AllTrees
    /\ Cardinality({f \in LocalFiles : tree[f] # "absent"}) <= MaxFiles
    /\ no_backup = FALSE
    /\ dry_run = FALSE
    /\ output_json = FALSE
    /\ skip_push = FALSE
    /\ force = FALSE
    /\ skip_pull = FALSE
    /\ steps = EmptyDict
    /\ proc = NoProc
    /\ client_open = FALSE
    /\ posts = <<>>
    /\ wait_timeout = timeout
    /\ backups_before = {}
    /\ backups_after = {}
    /\ elapsed = 0
    /\ calls = <<>>
    /\ staging = InitialStaging
    /\ production = InitialProduction
    /\ emitted = <<>>
    /\ exit_code = NoExit

\* deploy-config.py: yaml_valid, yaml_results = validate_local_config(config_path)
ApplyValidateLocalConfig ==
    /\ pc = "validators"
    /\ pc' = "validate_local_config"
    /\ steps' = validate_local_config(tree)
    /\ UNCHANGED <<env_ok, skip_push, force, skip_pull, posts, wait_timeout, backups_after, path_exists, tree,
                   no_backup, dry_run, output_json, proc, client_open,
                   backups_before, elapsed, calls, staging, production, emitted, exit_code>>

\* validate-config.py: yaml_results = validate_all_yaml_files(config_path)
\* and the yaml_errors main() derives from it
ApplyValidateAllYamlFiles ==
    /\ pc = "validators"
    /\ pc' = "validate_all_yaml_files"
    /\ LET yaml_results == validate_all_yaml_files(tree)
           yaml_errors == SelectSeq(yaml_results, LAMBDA r : ~r.valid)
       IN  steps' = [valid |-> Len(yaml_errors) = 0, results |-> yaml_results]
    /\ UNCHANGED <<env_ok, skip_push, force, skip_pull, posts, wait_timeout, backups_after, path_exists, tree,
                   no_backup, dry_run, output_json, proc, client_open,
                   backups_before, elapsed, calls, staging, production, emitted, exit_code>>

ValidatorsNext == ApplyValidateLocalConfig \/ ApplyValidateAllYamlFiles

ValidatorsSpec == ValidatorsInit /\ [][ValidatorsNext]_vars

----------------------------------------------------------------------------
(* Properties *)

Last(log) == log[Len(log)]

\* the promotion syncs issued so far
PromoteCalls == {i \in 1..Len(calls) : calls[i].op = "deploy_staging_to_production"}

RealPromoteCalls == {i \in PromoteCalls : ~calls[i].dry_run}

BackupOps == {"list_backups", "create_backup", "create_backup_legacy"}

ApiOps == BackupOps \cup Range(reload_services)

\* the run was told its fate by sys.exit
Done == pc = "done"

\* C1: a mutating promotion sync is invoked only if the caller opted out of
\* backups or the Backup step returned success with a slug that was not in
\* the listing taken before the trigger; after a timeout, a creation error or
\* a listing error no promotion is invoked.
C1_PromoteOnlyWithRecoveryPoint ==
    /\ (pc = "deploy" \/ RealPromoteCalls # {}) =>
           \/ no_backup
           \/ /\ Has(steps, "backup")
              /\ Get(steps.backup, "success", FALSE)
              /\ Has(steps.backup, "backup_id")
    /\ (pc = "deploy" /\ ~no_backup) => steps.backup.backup_id \notin backups_before
    /\ (Done /\ ~no_backup /\ (Has(steps, "error")
           \/ (Has(steps, "backup") /\ ~Get(steps.backup, "success", FALSE))))
          => RealPromoteCalls = {}

C1_Witness ==
    /\ RealPromoteCalls # {}
    /\ ~no_backup
    /\ steps.backup.success
    /\ CountOp(calls, "list_backups") >= 2

\* C2: every promotion sync, preview or real, carries all 14 patterns of
\* RSYNC_EXCLUDES in its exclude list, whatever the flags.
C2_ProtectedPathsAlwaysExcluded ==
    \A i \in PromoteCalls :
        /\ Range(RSYNC_EXCLUDES) \subseteq calls[i].excludes
        /\ Cardinality(calls[i].excludes \cap Range(RSYNC_EXCLUDES)) = 14

C2_Witness ==
    /\ PromoteCalls # {}
    /\ dry_run
    /\ no_backup
    /\ output_json

\* C3: when local validation reports an invalid document the run ends at
\* once: no remote call of any kind, overall_success false, exit status 1.
C3_InvalidTreeAbortsBeforeRemote ==
    (Has(steps, "yaml_validation")
        /\ \E i \in 1..Len(steps.yaml_validation.results) :
              ~steps.yaml_validation.results[i].valid)
      => /\ Done
         /\ calls = <<>>
         /\ ~client_open
         /\ steps.overall_success = FALSE
         /\ exit_code = 1
         /\ staging = InitialStaging
         /\ production = InitialProduction

C3_Witness ==
    /\ Done
    /\ Has(steps, "yaml_validation")
    /\ ~steps.yaml_validation.success
    /\ Len(steps.yaml_validation.results) = 2

\* a document the staging push would transfer: a .yaml/.yml file of the tree,
\* at any depth, that no --exclude of the push matches
Transferred(f) ==
    /\ tree[f] # "absent"
    /\ f.suffix \in {".yaml", ".yml"}
    /\ ~Excluded(Range(STAGING_EXCLUDES), f)

\* C4: a tree holding a structurally invalid document that the staging push
\* would transfer, in the directory or below it, makes the run abort before
\* any remote call.
C4_AnyInvalidDocumentAborts ==
    (\E f \in LocalFiles : Transferred(f) /\ tree[f] = "invalid") => calls = <<>>

\* the outcome of the latest subprocess.run was a failure: a non-zero exit
\* status, or an exception (timeout, transport)
ProcFailed == proc.raised \/ proc.returncode # 0

\* the failure detail of the latest subprocess.run
ProcDetail == IF proc.raised THEN proc.exc ELSE proc.stderr

\* C5: a failed staging push (non-zero exit, transport error or timeout
\* alike) ends the run: nothing is called after it, overall_success is false
\* and the exit status is 1.
C5_StagingFailureAborts ==
    (calls # <<>> /\ Last(calls).op = "rsync_to_staging" /\ ProcFailed)
      => /\ Done
         /\ Len(calls) = 1
         /\ ~client_open
         /\ ~steps.staging_push.success
         /\ steps.overall_success = FALSE
         /\ exit_code = 1
         /\ production = InitialProduction

C5_Witness ==
    /\ Done
    /\ Len(calls) = 1
    /\ proc.raised
    /\ exit_code = 1

\* C6: a failed real promotion ends the run: no remote check, no reload,
\* overall_success false, exit status 1, and the deploy step of the report
\* holds the failure detail of the sync as it was received.
C6_PromoteFailureAborts ==
    (calls # <<>> /\ Last(calls).op = "deploy_staging_to_production"
        /\ ~Last(calls).dry_run /\ ProcFailed)
      => /\ Done
         /\ ~client_open
         /\ Ops(calls) \cap ({"ha_core_check"} \cup Range(reload_services)) = {}
         /\ ~steps.deploy.success
         /\ steps.overall_success = FALSE
         /\ exit_code = 1
         /\ steps.deploy.error = ProcDetail
         /\ Last(emitted).steps.deploy.error = ProcDetail

C6_Witness ==
    /\ Done
    /\ RealPromoteCalls # {}
    /\ ~proc.raised
    /\ proc.returncode = 23
    /\ steps.deploy.error = "rsync error: some files could not be transferred"

\* C7: a dry run makes no backup, remote check or reload call and opens no
\* API client; every promotion sync it issues carries --dry-run, and the
\* production tree stays as it was.
C7_DryRunTouchesNothing ==
    dry_run =>
      /\ Ops(calls) \cap (ApiOps \cup {"ha_core_check"}) = {}
      /\ ~client_open
      /\ \A i \in PromoteCalls : calls[i].dry_run
      /\ Cardinality(PromoteCalls) <= 1
      /\ production = InitialProduction

C7_Witness ==
    /\ dry_run
    /\ Done
    /\ PromoteCalls # {}
    /\ ~ProcFailed
    /\ staging # InitialStaging

\* C8: a dry run that got past validation and staging ends with
\* overall_success true and exit status 0, whatever the preview returned.
C8_DryRunAlwaysSucceeds ==
    (dry_run /\ Done /\ Has(steps, "staging_push") /\ steps.staging_push.success)
      => /\ steps.overall_success = TRUE
         /\ exit_code = 0
         /\ Last(emitted).steps.overall_success = TRUE

C8_Witness ==
    /\ dry_run
    /\ Done
    /\ PromoteCalls # {}
    /\ ProcFailed
    /\ ~steps.deploy.success
    /\ exit_code = 0

\* the outcome of the remote check as the report shows it
CheckOutcome(check) ==
    IF Get(check, "skipped", FALSE) THEN "unsupported"
    ELSE IF check.success THEN "valid"
    ELSE "invalid"

\* C9: in a run that is neither a dry run nor aborted, overall_success is
\* the conjunction of: the promotion succeeded, the remote check is not
\* invalid, the reload succeeded (every service reloaded).
C9_OverallSuccessFormula ==
    (Done /\ ~dry_run /\ Has(steps, "overall_success") /\ ~Has(steps, "abort_reason"))
      => steps.overall_success =
            (/\ Has(steps, "deploy") /\ steps.deploy.success
             /\ Has(steps, "ha_check") /\ CheckOutcome(steps.ha_check) # "invalid"
             /\ Has(steps, "reload") /\ Len(steps.reload.errors) = 0)

C9_Witness ==
    /\ Done
    /\ ~dry_run
    /\ Has(steps, "reload")
    /\ CheckOutcome(steps.ha_check) = "unsupported"
    /\ steps.reload.success
    /\ steps.overall_success

\* C10: once the environment and the command line are accepted, every way
\* the run ends (completion, abort, dry run, exception) leaves exit status 0
\* when overall_success is true and 1 when it is false.
C10_ExitStatusFollowsVerdict ==
    (Done /\ env_ok /\ path_exists)
      => /\ Has(steps, "overall_success")
         /\ exit_code \in {0, 1}
         /\ (exit_code = 0) = steps.overall_success
         /\ emitted # <<>>
         /\ Last(emitted).steps = steps

C10_Witness ==
    /\ Done
    /\ Has(steps, "reload")
    /\ ~steps.reload.success
    /\ exit_code = 1

\* the calls made after the latest promotion sync
AfterPromote ==
    LET i == CHOOSE j \in PromoteCalls : \A k \in PromoteCalls : k <= j
    IN  SubSeq(calls, i + 1, Len(calls))

C12_ReloadContinuesPastFailures ==
    Has(steps, "reload") =>
      LET r == steps.reload
          n == Len(calls) - Len(reload_services)
      IN  /\ Len(reload_services) = 8
          /\ \A i \in 1..8 : calls[n + i].op = reload_services[i]
          /\ \A x \in Range(reload_services) : CountOp(calls, x) = 1
          /\ Range(r.reloaded) \cup Range(r.errors) = Range(reload_services)
          /\ Range(r.reloaded) \cap Range(r.errors) = {}
          /\ Len(r.reloaded) + Len(r.errors) = 8
          /\ r.reloaded = SelectSeq(reload_services, LAMBDA x : x \in Range(r.reloaded))
          /\ r.errors = SelectSeq(reload_services, LAMBDA x : x \in Range(r.errors))
          /\ r.success = (r.errors = <<>>)

C12_Witness ==
    /\ Has(steps, "reload")
    /\ steps.reload.errors = <<"automation.reload", "scene.reload">>
    /\ Len(steps.reload.reloaded) = 6

\* the remote check has returned and nothing was called since: proc holds
\* what the check command gave
CheckReturned == pc = "reload" /\ Has(steps, "ha_check")

\* the word "unauthorized" is in the output or in the error text
Unauthorized == ~proc.raised /\ (proc.stdout.unauthorized \/ proc.stderr.unauthorized)

\* C19: whenever the output or the error text of the check command holds the
\* authorization marker the remote check is unsupported (skipped), never
\* invalid, also when the output parses as a result other than ok; the
\* verdict of such a run is that of the promotion and the reload alone.
C19_UnauthorizedIsUnsupported ==
    /\ (CheckReturned /\ Unauthorized) =>
          /\ CheckOutcome(steps.ha_check) = "unsupported"
          /\ steps.ha_check.success
          /\ steps.ha_check.note = "ha core check not available via SSH (auth required)"
    /\ (Done /\ Has(steps, "ha_check") /\ Has(steps, "reload")
           /\ CheckOutcome(steps.ha_check) = "unsupported") =>
          steps.overall_success = (steps.deploy.success /\ steps.reload.success)

C19_Witness ==
    /\ CheckReturned
    /\ Unauthorized
    /\ proc.stdout.json = "error"
    /\ proc.returncode = 1
    /\ CheckOutcome(steps.ha_check) = "unsupported"

ListingUnavailable ==
    /\ Done
    /\ calls # <<>>
    /\ Last(calls).op = "list_backups"
    /\ Get(steps, "error", None) = "404 Not Found"

\* C13: when the backup listing answers not-found the Backup step ends
\* skipped (unverifiable), not failed, and the run is not failed or aborted
\* on that account.
C13_UnavailableListingIsSkipped ==
    ListingUnavailable =>
      /\ Has(steps, "backup")
      /\ Get(steps.backup, "skipped", FALSE)
      /\ exit_code # 1

\* the run ended inside step 3 on a request that failed: a create request
\* that was rejected or did not get through, or a listing request that did
\* not get through
BackupRequestFailed ==
    /\ Done
    /\ ~no_backup
    /\ calls # <<>>
    /\ \/ /\ Last(calls).op \in {"create_backup", "create_backup_legacy"}
          /\ Last(posts) # "200"
       \/ /\ Last(calls).op = "list_backups"
          /\ Get(steps, "error", None) = "ReadTimeout"

\* C14: a Backup step that fails for a reason other than the timeout (a
\* rejected create request, a failed legacy request, a transport error of a
\* create or listing call) still returns a result with success false that is
\* in the report, and the run aborts with the abort reason of the backup; the
\* failure does not reach the generic handler as an exception.
C14_BackupFailureIsAStepResult ==
    BackupRequestFailed =>
      /\ Has(steps, "backup")
      /\ ~Get(steps.backup, "success", TRUE)
      /\ Get(steps, "abort_reason", None) = "Backup failed"
      /\ ~Has(steps, "error")
      /\ Has(Last(emitted).steps, "backup")

\* the listing polls made so far: every list_backups but the one before the
\* trigger
PollsMade ==
    IF CountOp(calls, "list_backups") = 0 THEN 0 ELSE CountOp(calls, "list_backups") - 1

\* ceil(a / b) for b > 0, and 0 when a <= 0
CeilDiv(a, b) == IF a <= 0 THEN 0 ELSE (a + b - 1) \div b

\* wait_for_backup ran out of time
TimedOut == Has(steps, "backup") /\ steps.backup = BackupExpired

\* at most ceil(timeout / 5) polls, none for a timeout that is not positive;
\* the only failure the wait returns is the timeout, and main() then aborts
\* with no promotion
PollBound ==
    /\ PollsMade <= CeilDiv(wait_timeout, PollInterval)
    /\ wait_timeout <= 0 => PollsMade = 0
    /\ pc = "backup_poll" => elapsed >= PollInterval * PollsMade
    /\ (Has(steps, "backup") /\ ~Get(steps.backup, "success", TRUE)) =>
          /\ TimedOut
          /\ Done
          /\ exit_code = 1
          /\ ~Has(steps, "error")
          /\ steps.abort_reason = "Backup failed"
          /\ steps.overall_success = FALSE
          /\ PromoteCalls = {}

\* C15: the poll loop always ends: with poll interval 5 and timeout T it
\* makes at most ceil(T / 5) listing polls (none when T <= 0); when no poll
\* shows an unseen slug it returns a failure result, not an exception, and
\* main() aborts before the promotion.
C15_PollLoopTerminates == [](PollBound) /\ <>(pc \in {"deploy", "done"})

C15_Witness ==
    /\ TimedOut
    /\ wait_timeout = timeout
    /\ PollsMade = CeilDiv(timeout, PollInterval)
    /\ PollsMade >= 3
    /\ exit_code = 1

\* C16 as stated: for every k >= 1 with timeout >= 5k, a slug that first
\* shows at the k-th poll is returned, so the wait never gives up before it
\* has made the k-th poll.
C16_BudgetOfKIntervalsReachesPollK ==
    TimedOut =>
      \A k \in 1..(timeout + 1) :
          PollInterval * k <= wait_timeout => PollsMade >= k

\* C16 (amended): for every k >= 1, if a new slug first shows in the listing
\* at the k-th poll and the k-th poll is made, the wait returns success with
\* a slug that is new in that listing; the k-th poll is made when the time
\* the first k-1 sleeps and listing requests took is below the timeout, which
\* timeout >= 5k ensures only if the requests take no time. If the listing
\* never changes the wait returns the timeout failure.
C16_NewSlugAtPollKIsReturned ==
    /\ pc = "backup_poll" =>
          /\ Slugs(backups_after) \subseteq backups_before
          /\ ~Has(steps, "backup")
          /\ elapsed >= PollInterval * PollsMade
          /\ (elapsed < wait_timeout) = ENABLED BackupPoll
          /\ (elapsed = PollInterval * PollsMade
                 /\ PollInterval * (PollsMade + 1) <= wait_timeout) => ENABLED BackupPoll
    /\ pc = "deploy" =>
          /\ steps.backup.success
          /\ steps.backup.backup_id \in Slugs(backups_after) \ backups_before
          /\ PollsMade >= 1
    /\ TimedOut =>
          /\ Slugs(backups_after) \subseteq backups_before
          /\ ~steps.backup.success
          /\ wait_timeout > 0 => PollsMade >= 1
    /\ (Has(steps, "backup") /\ ~TimedOut) => pc = "deploy"

C16_Witness ==
    /\ pc = "deploy"
    /\ PollsMade = 3
    /\ wait_timeout = 3 * PollInterval
    /\ steps.backup.backup_id = 1

\* the position of the first call of an operation in the log
FirstOp(op) == CHOOSE i \in 1..Len(calls) :
                  calls[i].op = op /\ \A j \in 1..(i - 1) : calls[j].op # op

\* C17: the existing slugs are listed before the create request is issued
\* and no poll comes before the create request; the slug a successful Backup
\* step returns is not among the slugs listed before the trigger, is in the
\* listing of the poll that returned it, and the name and size returned are
\* those of the listing entry with that slug.
C17_BackupIsDiscovered ==
    /\ \A i \in 1..Len(calls) :
          calls[i].op \in {"create_backup", "create_backup_legacy"} =>
             /\ CountOp(SubSeq(calls, 1, i), "list_backups") = 1
             /\ FirstOp("list_backups") < FirstOp("create_backup")
    /\ pc = "backup_create" => PollsMade = 0 /\ CountOp(calls, "list_backups") = 1
    /\ PollsMade >= 1 => "create_backup" \in Ops(calls)
    /\ (pc = "deploy" /\ ~no_backup) =>
          LET r == steps.backup
          IN  /\ r.success
              /\ r.backup_id \notin backups_before
              /\ \E b \in backups_after :
                    /\ b.slug = r.backup_id
                    /\ r.name = b.name
                    /\ r.size = b.size

C17_Witness ==
    /\ pc = "deploy"
    /\ ~no_backup
    /\ backups_before # {}
    /\ Cardinality(backups_after) = 2
    /\ PollsMade = 2

\* C18: the legacy create endpoint is called exactly when the primary one
\* answered 404; any other failure of the primary request is reported as a
\* failure with no legacy request, a primary request that succeeded is not
\* followed by a legacy request, and a run makes at most two create requests.
C18_LegacyOnlyOnNotSupported ==
    LET primary == CountOp(calls, "create_backup")
        legacy == CountOp(calls, "create_backup_legacy")
    IN  /\ primary <= 1 /\ legacy <= 1
        /\ Len(posts) = primary + legacy
        /\ (legacy = 1) = (posts # <<>> /\ posts[1] = "404")
        /\ (posts # <<>> /\ posts[1] = "200") => Len(posts) = 1
        /\ (posts # <<>> /\ posts[1] \notin {"200", "404"}) =>
              /\ Len(posts) = 1
              /\ Done
              /\ steps.error = posts[1]
              /\ steps.overall_success = FALSE
              /\ exit_code = 1
              /\ Last(calls).op = "create_backup"
        /\ (posts # <<>> /\ Last(posts) # "200") => Done /\ exit_code = 1

C18_Witness ==
    /\ posts = <<"404", "200">>
    /\ pc = "deploy"
    /\ CountOp(calls, "create_backup_legacy") = 1

\* subprocess.TimeoutExpired of the latest remote command
ProcTimedOut ==
    proc.raised /\ proc.exc \in {"timed out after 120 seconds", "timed out after 30 seconds"}

\* the run has ended as a failure
EndedFailed == Done /\ Has(steps, "overall_success") /\ ~steps.overall_success /\ exit_code = 1

\* C21 as stated: a timeout of any remote call (staging sync, secret copy,
\* promotion sync, remote check command, API call) is fatal: the run ends
\* with overall_success false and exit status 1.
C21_AnyTimeoutIsFatal ==
    /\ ProcTimedOut => EndedFailed
    /\ (posts # <<>> /\ Last(posts) = "ReadTimeout") => EndedFailed

\* C21 (amended): a timeout of the staging sync, of the real promotion sync
\* or of an API call of the backup step ends the run with overall_success
\* false and exit status 1, and a reload call that fails, by timeout or
\* otherwise, makes the run end so after the remaining reload calls; a
\* timeout of the secret copy is ignored, a timeout of the remote check
\* command makes the check unsupported, and a timeout of the dry-run preview
\* leaves the dry run a success.
C21_TimeoutsThatAreFatal ==
    /\ (ProcTimedOut /\ Last(calls).op = "rsync_to_staging") => EndedFailed
    /\ (ProcTimedOut /\ Last(calls).op = "deploy_staging_to_production"
           /\ ~Last(calls).dry_run) => EndedFailed
    /\ (posts # <<>> /\ Last(posts) = "ReadTimeout") => EndedFailed
    /\ (Done /\ Get(steps, "error", None) = "ReadTimeout") => EndedFailed
    /\ (Done /\ Has(steps, "reload") /\ steps.reload.errors # <<>>) =>
          /\ EndedFailed
          /\ Len(steps.reload.reloaded) + Len(steps.reload.errors) = Len(reload_services)
    /\ (ProcTimedOut /\ Last(calls).op = "copy_secrets_to_staging") =>
          /\ pc \in {"dry_run", "backup"}
          /\ exit_code = NoExit
          /\ DOMAIN steps = {"yaml_validation", "staging_push"}
    /\ (ProcTimedOut /\ Last(calls).op = "ha_core_check") =>
          /\ pc = "reload"
          /\ CheckOutcome(steps.ha_check) = "unsupported"
          /\ steps.ha_check.success
    /\ (Done /\ Has(steps, "reload") /\ steps.reload.success /\ steps.deploy.success
           /\ Get(steps.ha_check, "note", None)
                 = UnavailableNote("timed out after 120 seconds")) =>
          steps.overall_success /\ exit_code = 0
    /\ (ProcTimedOut /\ Last(calls).op = "deploy_staging_to_production"
           /\ Last(calls).dry_run) =>
          Done /\ steps.overall_success /\ exit_code = 0

C21_Witness ==
    /\ Done
    /\ Has(steps, "reload")
    /\ Has(steps.ha_check, "note")
    /\ steps.ha_check.note = UnavailableNote("timed out after 120 seconds")
    /\ steps.overall_success
    /\ exit_code = 0

\* the secrets files a tree on the controller holds
SecretsIn(entries) == {e \in entries : e.file.name = "secrets.yaml"}

\* C22: the secrets file is left out of local validation, the staging push
\* never transfers it from the local tree, the promotion never writes it to
\* production; the only secrets file the run writes is the copy of the
\* production one into the staging path.
C22_SecretsNeverPushed ==
    /\ Has(steps, "yaml_validation") =>
          \A i \in 1..Len(steps.yaml_validation.results) :
              steps.yaml_validation.results[i].file # "secrets.yaml"
    /\ \A i \in 1..Len(calls) :
          calls[i].op \in {"rsync_to_staging", "deploy_staging_to_production"} =>
              "secrets.yaml" \in calls[i].excludes
    /\ \A e \in SecretsIn(staging) : e \in SecretsIn(InitialProduction)
    /\ SecretsIn(production) = SecretsIn(InitialProduction)
    /\ SecretsIn(staging) # {} => "copy_secrets_to_staging" \in Ops(calls)

C22_Witness ==
    /\ Done
    /\ tree[SecretsFile] = "invalid"
    /\ RealPromoteCalls # {}
    /\ steps.deploy.success
    /\ SecretsIn(staging) # {}
    /\ Len(steps.yaml_validation.results) = 1

\* deploy-config.py has just run the secret copy
AfterSecretCopy ==
    /\ pc \notin VcPositions
    /\ calls # <<>>
    /\ Last(calls).op = "copy_secrets_to_staging"
    /\ proc # NoProc

\* the report of a deploy run whose first two steps went through
StagedSteps ==
    Put(Put(EmptyDict, "yaml_validation",
            [success |-> TRUE, results |-> validate_local_config(tree).results,
             error |-> None]),
        "staging_push", [success |-> TRUE, error |-> None])

\* C23: whatever the secret copy did (copied, nothing copied, transport
\* error, timeout), the deploy run stands where it stands after a copy that
\* worked -- same next step, same report, nothing printed, no exit status --
\* and validate-config attempts the copy only after a successful push and
\* reports the tree valid with exit status 0 whatever the copy did.
C23_SecretCopyOutcomeIsIgnored ==
    /\ AfterSecretCopy =>
          /\ pc = IF dry_run THEN "dry_run" ELSE "backup"
          /\ steps = StagedSteps
          /\ emitted = <<>>
          /\ exit_code = NoExit
    /\ (pc \in VcPositions /\ "copy_secrets_to_staging" \in Ops(calls)) =>
          /\ Len(calls) = 2
          /\ calls[1].op = "rsync_to_staging"
          /\ steps.rsync.success
          /\ ~Has(steps.rsync, "skipped")
          /\ pc = "vc_done" => (steps.valid /\ exit_code = 0)

C23_Witness ==
    /\ AfterSecretCopy
    /\ proc.raised
    /\ staging = Rsync(LocalEntries(tree), InitialStaging, Range(STAGING_EXCLUDES))
    /\ pc = "backup"

\* the documents of the directory itself with a configuration extension,
\* the secrets file left out
Examined(t) ==
    {f \in LocalFiles : /\ t[f] # "absent"
                        /\ f.dirs = <<>>
                        /\ f.suffix \in {".yaml", ".yml"}
                        /\ f.name # "secrets.yaml"}

\* C24: both local validators return exactly one result per examined
\* document, whatever the state of the documents before it (malformed or
\* unreadable), each result carrying an error exactly when its document is
\* not a readable valid one, and the verdict is true iff no result carries
\* an error.
C24_OneResultPerDocument ==
    pc \in {"validate_local_config", "validate_all_yaml_files"} =>
        /\ Len(steps.results) = Cardinality(Examined(tree))
        /\ \A f \in Examined(tree) :
              \E i \in 1..Len(steps.results) :
                  /\ steps.results[i].file = f.name
                  /\ steps.results[i].valid = (tree[f] = "valid")
                  /\ (steps.results[i].error = None) = (tree[f] = "valid")
        /\ steps.valid = (\A i \in 1..Len(steps.results) : steps.results[i].error = None)

C24_Witness ==
    /\ pc = "validate_local_config"
    /\ tree[File(<<>>, "configuration.yaml", ".yaml")] = "unreadable"
    /\ tree[File(<<>>, "ui-lovelace.yml", ".yml")] = "valid"
    /\ Len(steps.results) = 2
    /\ steps.results[2].valid
    /\ ~steps.valid

\* the step a remote call belongs to
StepOf(op) ==
    CASE op = "rsync_to_staging" -> "Stage"
      [] op = "copy_secrets_to_staging" -> "SecretCopy"
      [] op \in BackupOps -> "Backup"
      [] op = "deploy_staging_to_production" -> "Promote"
      [] op = "ha_core_check" -> "RemoteVerify"
      [] OTHER -> "Reload"

\* the steps behind a log of calls, in order, a run of calls of one step
\* counted as one invocation of it
RECURSIVE StepsOf(_)
StepsOf(log) ==
    IF log = <<>> THEN <<>>
    ELSE LET front == StepsOf(SubSeq(log, 1, Len(log) - 1))
             step == StepOf(Last(log).op)
         IN  IF front # <<>> /\ Last(front) = step THEN front
             ELSE Append(front, step)

\* the steps the run has invoked so far; Validate makes no remote call and
\* shows in the report
Invoked ==
    (IF Has(steps, "yaml_validation") THEN <<"Validate">> ELSE <<>>) \o StepsOf(calls)

IsPrefix(a, b) == Len(a) <= Len(b) /\ a = SubSeq(b, 1, Len(a))

\* the pipeline, with or without its Backup step
Pipeline(with_backup) ==
    <<"Validate", "Stage", "SecretCopy">>
        \o (IF with_backup THEN <<"Backup">> ELSE <<>>)
        \o <<"Promote", "RemoteVerify", "Reload">>

\* the calls that a step makes once at most
SingleOps ==
    {"rsync_to_staging", "copy_secrets_to_staging", "create_backup",
     "create_backup_legacy", "deploy_staging_to_production", "ha_core_check"}
        \cup Range(reload_services)

Aborted ==
    /\ Done
    /\ Has(steps, "yaml_validation")
    /\ ~Has(steps, "reload")
    /\ ~Has(steps, "dry_run_mode")

\* the step that failed first in an aborted run
FirstFailed ==
    IF ~steps.yaml_validation.success THEN "Validate"
    ELSE IF ~Has(steps, "staging_push") \/ ~steps.staging_push.success THEN "Stage"
    ELSE IF Has(steps, "deploy") THEN "Promote"
    ELSE "Backup"

\* the text main() writes for the abort reason of each step: "local
\* validation failed", "staging push failed", "backup failed" and "deploy
\* failed" in the words of the report
AbortReasonOf(step) ==
    CASE step = "Validate" -> "YAML validation failed"
      [] step = "Stage" -> "Failed to push to staging"
      [] step = "Backup" -> "Backup failed"
      [] step = "Promote" -> "Deploy failed"

\* C26: an aborted run reports the abort reason of the step that failed
\* first (Validate, Stage, Backup or Promote), and a run that no step
\* aborted reports no abort reason.
C26_AbortReasonNamesTheFailedStep ==
    /\ Aborted =>
          /\ Has(steps, "abort_reason")
          /\ steps.abort_reason = AbortReasonOf(FirstFailed)
    /\ (Done /\ ~Aborted) => ~Has(steps, "abort_reason")

\* what the staging push of this run put into the staging directory
Pushed == {e \in LocalEntries(tree) : ~Excluded(Range(STAGING_EXCLUDES), e.file)}

\* C27: the promotion leaves the staging directory as it was: once the
\* real promotion sync has run, every file the staging push put there is
\* still there, unchanged.
C27_PromotionLeavesStagingUnchanged ==
    RealPromoteCalls # {} => \A e \in Pushed : e \in staging

\* C28: the backup the Backup step accepts is the one this run's create
\* request produced: whatever other backups show up in the listing after
\* the pre-trigger listing, alone or together with the run's own, the
\* promotion does not start on a backup of another origin.
C28_AcceptedBackupIsTheRunsOwn ==
    (pc = "deploy" /\ ~no_backup /\ OwnSlug \notin backups_before) =>
        /\ steps.backup.backup_id = OwnSlug
        /\ OwnSlug \in Slugs(backups_after)

\* C29: a tree without any top-level .yaml/.yml document besides the
\* secrets file passes local validation with an empty result list, and the
\* run goes on as for a tree of valid documents: the staging push mirrors
\* the tree with deletion and a promotion that succeeds mirrors that into
\* production, deleting what is neither staged nor protected.
C29_EmptyTreePassesValidation ==
    (Examined(tree) = {} /\ Has(steps, "yaml_validation")) =>
        /\ steps.yaml_validation = [success |-> TRUE, results |-> <<>>, error |-> None]
        /\ ~Has(steps, "abort_reason") \/ steps.abort_reason # "YAML validation failed"
        /\ pc = "staging" => ENABLED Stage
        /\ pc = "copy_secrets" => staging = Pushed
        /\ (~dry_run /\ Has(steps, "deploy") /\ steps.deploy.success) =>
              production = Rsync(Pushed, InitialProduction,
                                 EffectiveExcludes(DeployCommand(FALSE)))

C29_Witness ==
    /\ Done
    /\ path_exists
    /\ \A f \in LocalFiles : tree[f] = "absent"
    /\ RealPromoteCalls # {}
    /\ steps.yaml_validation.results = <<>>
    /\ steps.deploy.success
    /\ \A e \in production : e.file.name # "configuration.yaml"

\* the local directory is the one that was there when the run began: it
\* exists and the run has neither removed nor created it
PreExisting == path_exists /\ {"rmtree", "mkdir"} \cap Ops(calls) = {}

\* C30: init-config leaves a directory that was there intact when it ends
\* in an error: without --force it ends before any removal and any remote
\* call, and with --force the removal comes only after the check of the SSH
\* connection and the check of the remote configuration directory have
\* both succeeded.
C30_ExistingDirectorySurvivesErrors ==
    /\ (~force /\ PreExisting) => (calls = <<>> /\ pc \in {"ic_main", "ic_exists", "ic_done"})
    /\ ~force => "rmtree" \notin Ops(calls)
    /\ \A i \in 1..Len(calls) :
          calls[i].op = "rmtree" =>
              {"check_ssh_connection", "check_ha_config_exists"}
                  \subseteq Ops(SubSeq(calls, 1, i - 1))
    /\ (pc = "ic_done" /\ exit_code = 1 /\ "rmtree" \in Ops(calls)) =>
          "check_ha_config_exists" \in Ops(calls)
====
